---- MODULE Spec2Model ----
(***************************************************************************)
(* RAG-pdf backend: the lazily initialised vector store (vectorstore.py),  *)
(* the retrieval engine (rag.py) and the text chunker (utils.py).          *)
(*                                                                         *)
(* Python threads are modelled as processes with a program counter; every  *)
(* action is one step of a function between two points where another       *)
(* thread may run.  Library calls that can raise (model load, encode,      *)
(* index append, index search, file writes, HTTP generation) choose their  *)
(* outcome nondeterministically.                                           *)
(***************************************************************************)
EXTENDS Integers, Sequences, FiniteSets, TLC

VARIABLES
    model,      \* _model: "None" or "loaded"
    index,      \* _index: None or Some(sequence of vectors)
    metadata,   \* _metadata: None or Some(sequence of {text, source} rows)
    init_lock,  \* _init_lock: 0 when free, else the holding thread
    indexFile,  \* faiss.index on disk
    metaFile,   \* meta.pkl on disk
    vecOrigin,  \* history: for each vector, <<call id, chunk position>>
    rowOrigin,  \* history: for each metadata row, <<call id, chunk position>>
    loads,      \* history: load attempts of model / index / metadata
    pc,         \* per thread: position in the code
    frame,      \* per thread: arguments and locals of the running call
    ret,        \* per thread: outcome of the last finished call
    calls,      \* number of calls started so far
    ctext, csize, coverlap,   \* chunk_text arguments
    cstart, cchunks,          \* chunk_text locals
    cstarts,                  \* history: start offset of every chunk
    cpc,                      \* chunk_text position
    progress_data,    \* ProgressTracker.progress_data: session id -> steps, in insertion order
    active_sessions,  \* ProgressTracker.active_sessions: session id -> flag, in insertion order
    uuids,            \* number of session ids drawn by the request handlers
    last              \* history: the tracker operation done last and the state it found

storeVars == <<model, index, metadata, init_lock, indexFile, metaFile,
               vecOrigin, rowOrigin, loads>>
threadVars == <<pc, frame, ret, calls>>
chunkVars == <<ctext, csize, coverlap, cstart, cchunks, cstarts, cpc>>
trackerVars == <<progress_data, active_sessions, uuids, last>>
vars == <<model, index, metadata, init_lock, indexFile, metaFile,
          vecOrigin, rowOrigin, loads, pc, frame, ret, calls,
          ctext, csize, coverlap, cstart, cchunks, cstarts, cpc,
          progress_data, active_sessions, uuids, last>>

----------------------------------------------------------------------------
(* Bounds *)

MaxCalls == 2        \* calls started in one behaviour
MaxChunks == 2       \* chunks in one add_documents call
MaxK == 2            \* explicit k of a direct search call (besides the default)
MaxPersisted == 2    \* rows / vectors found on disk at process start
MaxTextLen == 4      \* length of a text given to chunk_text
MaxSize == 3         \* size and overlap given to chunk_text
MaxSessionIds == 2   \* session ids used with the progress tracker
MaxSteps == 2        \* steps logged in one session
MaxKeep == 2         \* max_sessions given to cleanup_old_sessions
MaxExtra == 1        \* requests beyond DefaultMaxSessions
MaxQueries == 2      \* requests that may be queries
MaxRequests == 2     \* requests whose every path is followed

Threads == {1, 2}
Texts == {<<"a">>, <<"b">>}       \* chunk and query texts, as character sequences
OldSource == "s1"           \* source label of the rows found on disk
NewSources == {"s2"}        \* source labels of the calls of this process

----------------------------------------------------------------------------
(* Python values *)

None == <<>>
Some(x) == <<x>>
Val(o) == o[1]

Min(a, b) == IF a < b THEN a ELSE b

\* list[idx] with Python's negative indices
PyIndexOk(list, idx) == idx >= 0 - Len(list) /\ idx < Len(list)
PyItem(list, idx) == IF idx >= 0 THEN list[idx + 1] ELSE list[Len(list) + idx + 1]

\* an index of s[lo:hi] after Python's clamping and negative wrap
PyClamp(n, i) == IF i < 0 THEN (IF i + n < 0 THEN 0 ELSE i + n)
                 ELSE (IF i > n THEN n ELSE i)
\* faulty variant: the slice takes the character at hi as well
PySliceInclusive(s, lo, hi) ==
    LET a == PyClamp(Len(s), lo)
        b == PyClamp(Len(s), hi + 1)
    IN  IF a >= b THEN <<>> ELSE SubSeq(s, a + 1, b)

PySlice(s, lo, hi) ==
    LET a == PyClamp(Len(s), lo)
        b == PyClamp(Len(s), hi)
    IN  IF a >= b THEN <<>> ELSE SubSeq(s, a + 1, b)

----------------------------------------------------------------------------
(* Embedding model and nearest-neighbour index *)

DefaultK == 5

\* SentenceTransformer.encode on one text: a fixed vector per text
Emb(text) == IF text # <<>> /\ text[1] = "a" THEN 0 ELSE 1
Encode(texts) == [i \in 1..Len(texts) |-> Emb(texts[i])]

Dist(x, y) == (x - y) * (x - y)

\* orderings of the m nearest ordinals of rem; equal distances in any order
RECURSIVE NearestSeqs(_, _, _, _)
NearestSeqs(vecs, q, rem, m) ==
    IF m = 0 \/ rem = {} THEN {<<>>}
    ELSE LET best == {i \in rem : \A j \in rem : Dist(vecs[i + 1], q) <= Dist(vecs[j + 1], q)}
         IN  UNION {{<<i>> \o s : s \in NearestSeqs(vecs, q, rem \ {i}, m - 1)} : i \in best}

\* IndexFlatL2.search: k ordinals by ascending distance, missing slots are -1
FaissSearch(vecs, q, k) ==
    {s \o [j \in 1..(k - Len(s)) |-> 0 - 1] : s \in NearestSeqs(vecs, q, 0..(Len(vecs) - 1), k)}

\* faulty variant: the rows are appended in reverse order
RowsReversed(chunks, source) ==
    [i \in 1..Len(chunks) |-> [text |-> chunks[Len(chunks) + 1 - i], source |-> source]]

Rows(chunks, source) == [i \in 1..Len(chunks) |-> [text |-> chunks[i], source |-> source]]

\* the result loop of search(): rows kept, ordinals skipped, IndexError raised
RECURSIVE MapResults(_, _, _)
MapResults(I, meta, acc) ==
    IF I = <<>> THEN acc
    ELSE LET idx == Head(I) IN
         IF idx < Len(meta)
         THEN IF PyIndexOk(meta, idx)
              THEN MapResults(Tail(I), meta, [acc EXCEPT !.rows = Append(@, PyItem(meta, idx))])
              ELSE [acc EXCEPT !.raised = TRUE]
         ELSE MapResults(Tail(I), meta, [acc EXCEPT !.skipped = @ + 1])

NoResults == [rows |-> <<>>, skipped |-> 0, raised |-> FALSE]

----------------------------------------------------------------------------
(* Files *)

Absent == [exists |-> FALSE, ok |-> FALSE, data |-> <<>>]
Corrupt == [exists |-> TRUE, ok |-> FALSE, data |-> <<>>]
Stored(d) == [exists |-> TRUE, ok |-> TRUE, data |-> d]

\* what an earlier process may have left on disk
PersistedRows == [i \in 1..MaxPersisted |->
                    [text |-> IF i % 2 = 1 THEN <<"a">> ELSE <<"b">>, source |-> OldSource]]
PersistedTexts == [i \in 1..MaxPersisted |-> PersistedRows[i].text]
IndexFiles == {Absent, Corrupt} \cup
              {Stored(Encode(SubSeq(PersistedTexts, 1, n))) : n \in 1..MaxPersisted}
MetaFiles == {Absent, Corrupt} \cup
             {Stored(SubSeq(PersistedRows, 1, n)) : n \in 1..MaxPersisted}

OldOrigin(n) == [i \in 1..n |-> <<0, i>>]

----------------------------------------------------------------------------
(* Calls: frames and results *)

NoFrame == [op |-> "none", call |-> 0, chunks |-> <<>>, source |-> "", query |-> "",
            k |-> 0, emb |-> <<>>, I |-> <<>>, docs |-> <<>>, blocks |-> <<>>,
            gen |-> 0, preIndex |-> None, preMeta |-> None,
            persist |-> "none", wIndex |-> 0, wMeta |-> 0,
            fault |-> "", doc |-> <<>>, text |-> <<>>,
            nLoad |-> 0, nChunk |-> 0, nAdd |-> 0, nSearch |-> 0, http |-> 0,
            restarted |-> FALSE, diedAt |-> "", prevOp |-> "", prevPersist |-> "",
            memIndex |-> None, memMeta |-> None]

NoRet == [op |-> "none", status |-> "none", rows |-> <<>>, skipped |-> 0,
          answer |-> "", sources |-> <<>>, error |-> "", cause |-> ""]

Returned(op) == [NoRet EXCEPT !.op = op, !.status = "ok"]
Raised(op, e) == [NoRet EXCEPT !.op = op, !.status = "raised", !.error = e]

FallbackAnswer == "I don't have any relevant documents to answer this question. Please upload some documents first."

Finish(t, r) ==
    /\ pc' = [pc EXCEPT ![t] = "idle"]
    /\ ret' = [ret EXCEPT ![t] = r]

Enter(t, f) ==
    /\ pc[t] = "idle"
    /\ calls < MaxCalls
    /\ calls' = calls + 1
    /\ frame' = [frame EXCEPT ![t] = [f EXCEPT !.call = calls + 1]]
    /\ pc' = [pc EXCEPT ![t] = "ei_check"]
    /\ UNCHANGED <<ret, storeVars, chunkVars, trackerVars>>

----------------------------------------------------------------------------
(* _ensure_initialized *)

\* startup_event, or any direct call
EnsureCall(t) == Enter(t, [NoFrame EXCEPT !.op = "ensure"])

AfterInit(op) == IF op \in {"add", "ingest"} THEN "add_guard" ELSE "s_guard"

\* leave _ensure_initialized and continue in the caller
InitReturn(t) ==
    IF frame[t].op = "ensure"
    THEN Finish(t, Returned("ensure"))
    ELSE /\ pc' = [pc EXCEPT ![t] = AfterInit(frame[t].op)]
         /\ UNCHANGED ret

\* the unlocked fast path
EiCheck(t) ==
    /\ pc[t] = "ei_check"
    /\ IF model # "None" /\ index # None /\ metadata # None
       THEN InitReturn(t)
       ELSE pc' = [pc EXCEPT ![t] = "ei_lock"] /\ UNCHANGED ret
    /\ UNCHANGED <<frame, calls, storeVars, chunkVars, trackerVars>>

\* with _init_lock:
EiLock(t) ==
    /\ pc[t] = "ei_lock"
    /\ init_lock = 0
    /\ init_lock' = t
    /\ pc' = [pc EXCEPT ![t] = "ei_model"]
    /\ UNCHANGED <<model, index, metadata, indexFile, metaFile, vecOrigin, rowOrigin,
                   loads, frame, ret, calls, chunkVars, trackerVars>>

\* load the embedding model; a failure leaves _model = None
EiModel(t) ==
    /\ pc[t] = "ei_model"
    /\ IF model = "None"
       THEN /\ model' \in {"loaded", "None"}
            /\ loads' = [loads EXCEPT !.model = @ + 1]
       ELSE UNCHANGED <<model, loads>>
    /\ pc' = [pc EXCEPT ![t] = "ei_index"]
    /\ UNCHANGED <<index, metadata, init_lock, indexFile, metaFile, vecOrigin, rowOrigin,
                   frame, ret, calls, chunkVars, trackerVars>>

LoadedOrEmpty(file) == IF file.exists /\ file.ok THEN file.data ELSE <<>>

\* faulty variant: the index file is never read
EiIndexFresh(t) ==
    /\ pc[t] = "ei_index"
    /\ IF index = None
       THEN /\ index' = Some(<<>>)
            /\ vecOrigin' = <<>>
            /\ loads' = [loads EXCEPT !.index = @ + 1]
       ELSE UNCHANGED <<index, vecOrigin, loads>>
    /\ pc' = [pc EXCEPT ![t] = "ei_meta"]
    /\ UNCHANGED <<model, metadata, init_lock, indexFile, metaFile, rowOrigin,
                   frame, ret, calls, chunkVars, trackerVars>>

\* read faiss.index, or create an empty index (also as the fallback)
EiIndex(t) ==
    /\ pc[t] = "ei_index"
    /\ IF index = None
       THEN /\ index' = Some(LoadedOrEmpty(indexFile))
            /\ vecOrigin' = OldOrigin(Len(LoadedOrEmpty(indexFile)))
            /\ loads' = [loads EXCEPT !.index = @ + 1]
       ELSE UNCHANGED <<index, vecOrigin, loads>>
    /\ pc' = [pc EXCEPT ![t] = "ei_meta"]
    /\ UNCHANGED <<model, metadata, init_lock, indexFile, metaFile, rowOrigin,
                   frame, ret, calls, chunkVars, trackerVars>>

\* faulty variant: the loaded rows are cut down to the number of vectors
EiMetaTruncated(t) ==
    /\ pc[t] = "ei_meta"
    /\ IF metadata = None
       THEN /\ metadata' = Some(SubSeq(LoadedOrEmpty(metaFile), 1,
                                       Min(Len(LoadedOrEmpty(metaFile)), Len(Val(index)))))
            /\ rowOrigin' = OldOrigin(Min(Len(LoadedOrEmpty(metaFile)), Len(Val(index))))
            /\ loads' = [loads EXCEPT !.meta = @ + 1]
       ELSE UNCHANGED <<metadata, rowOrigin, loads>>
    /\ init_lock' = 0
    /\ InitReturn(t)
    /\ UNCHANGED <<model, index, indexFile, metaFile, vecOrigin, frame, calls, chunkVars, trackerVars>>

\* read meta.pkl, or create an empty list (also as the fallback); release the lock
EiMeta(t) ==
    /\ pc[t] = "ei_meta"
    /\ IF metadata = None
       THEN /\ metadata' = Some(LoadedOrEmpty(metaFile))
            /\ rowOrigin' = OldOrigin(Len(LoadedOrEmpty(metaFile)))
            /\ loads' = [loads EXCEPT !.meta = @ + 1]
       ELSE UNCHANGED <<metadata, rowOrigin, loads>>
    /\ init_lock' = 0
    /\ InitReturn(t)
    /\ UNCHANGED <<model, index, indexFile, metaFile, vecOrigin, frame, calls, chunkVars, trackerVars>>

\* the process dies, idle or at any point of a call, and is started again:
\* the globals are lost, the files stay, and startup_event calls
\* _ensure_initialized (the frame keeps what the dead process held)
Restart(t) ==
    /\ pc[t] # "off"
    /\ calls < MaxCalls
    /\ calls' = calls + 1
    /\ model' = "None"
    /\ index' = None
    /\ metadata' = None
    /\ init_lock' = 0
    /\ vecOrigin' = <<>>
    /\ rowOrigin' = <<>>
    /\ loads' = [model |-> 0, index |-> 0, meta |-> 0]
    /\ frame' = [frame EXCEPT ![t] =
                    [NoFrame EXCEPT !.op = "ensure", !.call = calls + 1,
                                    !.restarted = TRUE, !.diedAt = pc[t],
                                    !.prevOp = frame[t].op, !.prevPersist = frame[t].persist,
                                    !.chunks = frame[t].chunks,
                                    !.memIndex = index, !.memMeta = metadata]]
    /\ ret' = [ret EXCEPT ![t] = NoRet]
    /\ pc' = [pc EXCEPT ![t] = "ei_check"]
    /\ UNCHANGED <<indexFile, metaFile, chunkVars, trackerVars>>

----------------------------------------------------------------------------
(* add_documents *)

\* add_documents returns: to the client, or to ingest_document, which returns
AddReturn(t) == Finish(t, Returned(frame[t].op))

\* add_documents raises: to the client, or wrapped by ingest_document
AddRaise(t, e) ==
    Finish(t, IF frame[t].op = "add"
              THEN Raised("add", e)
              ELSE [Raised("ingest", "Failed to add to vector store") EXCEPT !.cause = e])

AddCall(t, chunks, source) ==
    Enter(t, [NoFrame EXCEPT !.op = "add", !.chunks = chunks, !.source = source])

\* if _model is None or _index is None: raise RuntimeError
\* (preIndex / preMeta record the store the call starts to work on)
AddGuard(t) ==
    /\ pc[t] = "add_guard"
    /\ frame' = [frame EXCEPT ![t].preIndex = index, ![t].preMeta = metadata,
                               ![t].fault = IF model = "None" \/ index = None
                                            THEN "not_initialized" ELSE @]
    /\ IF model = "None" \/ index = None
       THEN AddRaise(t, "Vector store not initialized properly")
       ELSE pc' = [pc EXCEPT ![t] = "add_encode"] /\ UNCHANGED ret
    /\ UNCHANGED <<calls, storeVars, chunkVars, trackerVars>>

\* embeddings = _model.encode(chunks), or re-raise
AddEncode(t) ==
    /\ pc[t] = "add_encode"
    /\ \/ /\ frame' = [frame EXCEPT ![t].emb = Encode(frame[t].chunks)]
          /\ pc' = [pc EXCEPT ![t] = "add_index"]
          /\ UNCHANGED ret
       \/ /\ AddRaise(t, "encode failed")
          /\ frame' = [frame EXCEPT ![t].fault = "embedding"]
    /\ UNCHANGED <<calls, storeVars, chunkVars, trackerVars>>

\* faulty variant: a failing _index.add has already appended the vectors
AddIndexPartial(t) ==
    /\ pc[t] = "add_index"
    /\ index' = Some(Val(index) \o frame[t].emb)
    /\ vecOrigin' = vecOrigin \o [i \in 1..Len(frame[t].emb) |-> <<frame[t].call, i>>]
    /\ \/ pc' = [pc EXCEPT ![t] = "add_meta"] /\ UNCHANGED <<ret, frame>>
       \/ /\ AddRaise(t, "index add failed")
          /\ frame' = [frame EXCEPT ![t].fault = "index_append"]
    /\ UNCHANGED <<model, metadata, init_lock, indexFile, metaFile, rowOrigin, loads,
                   calls, chunkVars, trackerVars>>

\* _index.add(embeddings), or re-raise
AddIndex(t) ==
    /\ pc[t] = "add_index"
    /\ \/ /\ index' = Some(Val(index) \o frame[t].emb)
          /\ vecOrigin' = vecOrigin \o [i \in 1..Len(frame[t].emb) |-> <<frame[t].call, i>>]
          /\ pc' = [pc EXCEPT ![t] = "add_meta"]
          /\ UNCHANGED <<ret, frame>>
       \/ /\ AddRaise(t, "index add failed")
          /\ frame' = [frame EXCEPT ![t].fault = "index_append"]
          /\ UNCHANGED <<index, vecOrigin>>
    /\ UNCHANGED <<model, metadata, init_lock, indexFile, metaFile, rowOrigin, loads,
                   calls, chunkVars, trackerVars>>

\* _metadata.extend([{"text": c, "source": source} for c in chunks])
AddMeta(t) ==
    /\ pc[t] = "add_meta"
    /\ metadata' = Some(Val(metadata) \o Rows(frame[t].chunks, frame[t].source))
    /\ rowOrigin' = rowOrigin \o [i \in 1..Len(frame[t].chunks) |-> <<frame[t].call, i>>]
    /\ pc' = [pc EXCEPT ![t] = "add_write_index"]
    /\ UNCHANGED <<model, index, init_lock, indexFile, metaFile, vecOrigin, loads,
                   frame, ret, calls, chunkVars, trackerVars>>

\* faulty variant: a failed index write is re-raised to the caller
AddWriteIndexRaises(t) ==
    /\ pc[t] = "add_write_index"
    /\ \/ /\ indexFile' = Stored(Val(index))
          /\ frame' = [frame EXCEPT ![t].wIndex = @ + 1]
          /\ pc' = [pc EXCEPT ![t] = "add_write_meta"]
          /\ UNCHANGED ret
       \/ /\ indexFile' \in {indexFile, Corrupt}
          /\ frame' = [frame EXCEPT ![t].wIndex = @ + 1, ![t].persist = "index_failed"]
          /\ AddRaise(t, "write failed")
    /\ UNCHANGED <<model, index, metadata, init_lock, metaFile, vecOrigin, rowOrigin, loads,
                   calls, chunkVars, trackerVars>>

\* faiss.write_index(_index, INDEX_PATH); a failure is logged and ends the try block
AddWriteIndex(t) ==
    /\ pc[t] = "add_write_index"
    /\ \/ /\ indexFile' = Stored(Val(index))
          /\ frame' = [frame EXCEPT ![t].wIndex = @ + 1]
          /\ pc' = [pc EXCEPT ![t] = "add_write_meta"]
          /\ UNCHANGED ret
       \/ /\ indexFile' \in {indexFile, Corrupt}
          /\ frame' = [frame EXCEPT ![t].wIndex = @ + 1, ![t].persist = "index_failed"]
          /\ AddReturn(t)
    /\ UNCHANGED <<model, index, metadata, init_lock, metaFile, vecOrigin, rowOrigin, loads,
                   calls, chunkVars, trackerVars>>

\* pickle.dump(_metadata, f); a failure is logged; the call returns
AddWriteMeta(t) ==
    /\ pc[t] = "add_write_meta"
    /\ \/ /\ metaFile' = Stored(Val(metadata))
          /\ frame' = [frame EXCEPT ![t].wMeta = @ + 1, ![t].persist = "ok"]
       \/ /\ metaFile' \in {metaFile, Corrupt}
          /\ frame' = [frame EXCEPT ![t].wMeta = @ + 1, ![t].persist = "meta_failed"]
    /\ AddReturn(t)
    /\ UNCHANGED <<model, index, metadata, init_lock, indexFile, vecOrigin, rowOrigin, loads,
                   calls, chunkVars, trackerVars>>

----------------------------------------------------------------------------
(* search *)

SearchCall(t, q, k) ==
    Enter(t, [NoFrame EXCEPT !.op = "search", !.query = q, !.k = k])

\* search() returns rows to its caller: the client, or answer_question
\* (fault names the library call whose exception search() swallowed, if any)
SearchReturn(t, res, fault) ==
    IF frame[t].op = "search"
    THEN /\ Finish(t, [Returned("search") EXCEPT !.rows = res.rows, !.skipped = res.skipped])
         /\ frame' = [frame EXCEPT ![t].fault = fault]
    ELSE /\ frame' = [frame EXCEPT ![t].docs = res.rows, ![t].fault = fault]
         /\ pc' = [pc EXCEPT ![t] = "aq_docs"]
         /\ UNCHANGED ret

\* search() raises: to the client, or wrapped by answer_question
SearchRaise(t, e) ==
    /\ IF frame[t].op = "search"
       THEN Finish(t, Raised("search", e))
       ELSE Finish(t, [Raised("answer", "Failed to search documents") EXCEPT !.cause = e])
    /\ frame' = [frame EXCEPT ![t].fault = "search"]

\* not initialised, or "if not _metadata": return []
SearchGuard(t) ==
    /\ pc[t] = "s_guard"
    /\ IF model = "None" \/ index = None \/ Val(metadata) = <<>>
       THEN SearchReturn(t, NoResults, "")
       ELSE pc' = [pc EXCEPT ![t] = "s_encode"] /\ UNCHANGED <<frame, ret>>
    /\ UNCHANGED <<calls, storeVars, chunkVars, trackerVars>>

\* emb = _model.encode([query]); a failure returns []
SearchEncode(t) ==
    /\ pc[t] = "s_encode"
    /\ \/ /\ frame' = [frame EXCEPT ![t].emb = Encode(<<frame[t].query>>)]
          /\ pc' = [pc EXCEPT ![t] = "s_search"]
          /\ UNCHANGED ret
       \/ SearchReturn(t, NoResults, "query_embedding")
    /\ UNCHANGED <<calls, storeVars, chunkVars, trackerVars>>

\* D, I = _index.search(emb, k); a failure returns []
SearchIndex(t) ==
    /\ pc[t] = "s_search"
    /\ \/ /\ \E I \in FaissSearch(Val(index), frame[t].emb[1], frame[t].k) :
                frame' = [frame EXCEPT ![t].I = I]
          /\ pc' = [pc EXCEPT ![t] = "s_map"]
          /\ UNCHANGED ret
       \/ SearchReturn(t, NoResults, "index_search")
    /\ UNCHANGED <<calls, storeVars, chunkVars, trackerVars>>

\* for i, idx in enumerate(I[0]): ... ; return results
SearchMap(t) ==
    /\ pc[t] = "s_map"
    /\ LET res == MapResults(frame[t].I, Val(metadata), NoResults)
       IN  IF res.raised THEN SearchRaise(t, "IndexError") ELSE SearchReturn(t, res, "")
    /\ UNCHANGED <<calls, storeVars, chunkVars, trackerVars>>

----------------------------------------------------------------------------
(* answer_question *)

\* docs = search(question, k=5)
AnswerCall(t, q) ==
    Enter(t, [NoFrame EXCEPT !.op = "answer", !.query = q, !.k = DefaultK, !.nSearch = 1])

Blocks(docs) == [i \in 1..Len(docs) |-> [n |-> i, source |-> docs[i].source, text |-> docs[i].text]]
\* faulty variant: the ranks start at 0
SourcesZeroBased(docs) == [i \in 1..Len(docs) |-> [id |-> i - 1, source |-> docs[i].source]]

SourcesOf(docs) == [i \in 1..Len(docs) |-> [id |-> i, source |-> docs[i].source]]

\* faulty variant: no early return, the prompt is built from an empty context
AqDocsNoFallback(t) ==
    /\ pc[t] = "aq_docs"
    /\ frame' = [frame EXCEPT ![t].blocks = Blocks(frame[t].docs)]
    /\ pc' = [pc EXCEPT ![t] = "aq_generate"]
    /\ UNCHANGED <<ret, calls, storeVars, chunkVars, trackerVars>>

\* "if not docs": the fallback; otherwise build the context blocks and the prompt
AqDocs(t) ==
    /\ pc[t] = "aq_docs"
    /\ IF frame[t].docs = <<>>
       THEN /\ Finish(t, [Returned("answer") EXCEPT !.answer = FallbackAnswer, !.sources = <<>>])
            /\ UNCHANGED frame
       ELSE /\ frame' = [frame EXCEPT ![t].blocks = Blocks(frame[t].docs)]
            /\ pc' = [pc EXCEPT ![t] = "aq_generate"]
            /\ UNCHANGED ret
    /\ UNCHANGED <<calls, storeVars, chunkVars, trackerVars>>

\* the ways one requests.post to the generation service can fail
HttpFailures == {"Failed to connect to Ollama", "Ollama API returned 404",
                 "Ollama API HTTP error", "Invalid JSON response from Ollama"}

\* faulty variant: a failed request is sent again
AqGenerateRetry(t) ==
    /\ pc[t] = "aq_generate"
    /\ \/ /\ frame' = [frame EXCEPT ![t].gen = @ + 1, ![t].http = @ + 1]
          /\ Finish(t, [Returned("answer") EXCEPT !.answer = "generated",
                                                  !.sources = SourcesOf(frame[t].docs)])
       \/ /\ frame[t].http < 3
          /\ frame' = [frame EXCEPT ![t].gen = 1, ![t].http = @ + 1]
          /\ UNCHANGED <<pc, ret>>
    /\ UNCHANGED <<calls, storeVars, chunkVars, trackerVars>>

\* answer = _ollama_generate(prompt): one HTTP request; a failure of the
\* request, of the status or of the body is raised, wrapped by answer_question
AqGenerate(t) ==
    /\ pc[t] = "aq_generate"
    /\ \/ /\ frame' = [frame EXCEPT ![t].gen = @ + 1, ![t].http = @ + 1]
          /\ Finish(t, [Returned("answer") EXCEPT !.answer = "generated",
                                                  !.sources = SourcesOf(frame[t].docs)])
       \/ \E e \in HttpFailures :
             /\ frame' = [frame EXCEPT ![t].gen = @ + 1, ![t].http = @ + 1,
                                       ![t].fault = "generation"]
             /\ Finish(t, [Raised("answer", "Failed to generate answer") EXCEPT !.cause = e])
    /\ UNCHANGED <<calls, storeVars, chunkVars, trackerVars>>

----------------------------------------------------------------------------
(* chunk_text *)

DefaultSize == 800
DefaultOverlap == 150

Chars == {"a", " "}
ChunkCap == MaxTextLen + 2    \* iterations followed when the loop does not advance

\* not text.strip()
IsBlank(text) == \A i \in 1..Len(text) : text[i] = " "

SmallTexts == UNION {[1..n -> Chars] : n \in 0..MaxTextLen}
ScenarioText == [i \in 1..2000 |-> IF i % 7 = 0 THEN " " ELSE "a"]
ChunkInputs == {<<T, s, o>> : T \in SmallTexts, s \in 1..MaxSize, o \in 0..MaxSize}
               \cup {<<ScenarioText, DefaultSize, DefaultOverlap>>}

\* "if not text.strip(): return []", else chunks = [], start = 0
ChunkEnter ==
    /\ cpc = "call"
    /\ cpc' = IF IsBlank(ctext) THEN "done" ELSE "loop"
    /\ cstart' = 0
    /\ cchunks' = <<>>
    /\ cstarts' = <<>>
    /\ UNCHANGED <<ctext, csize, coverlap, storeVars, threadVars, trackerVars>>

\* faulty variant: start advances by size, the overlap is lost
ChunkLoopNoOverlap ==
    /\ cpc = "loop"
    /\ cstart < Len(ctext)
    /\ Len(cchunks) < ChunkCap
    /\ cchunks' = Append(cchunks, PySlice(ctext, cstart, cstart + csize))
    /\ cstarts' = Append(cstarts, cstart)
    /\ cstart' = cstart + csize
    /\ UNCHANGED <<ctext, csize, coverlap, cpc, storeVars, threadVars, trackerVars>>

\* one iteration of "while start < len(text)"
ChunkLoop ==
    /\ cpc = "loop"
    /\ cstart < Len(ctext)
    /\ Len(cchunks) < ChunkCap
    /\ cchunks' = Append(cchunks, PySlice(ctext, cstart, cstart + csize))
    /\ cstarts' = Append(cstarts, cstart)
    /\ cstart' = cstart + csize - coverlap
    /\ UNCHANGED <<ctext, csize, coverlap, cpc, storeVars, threadVars, trackerVars>>

\* the loop condition fails: return chunks
ChunkExit ==
    /\ cpc = "loop"
    /\ ~(cstart < Len(ctext))
    /\ cpc' = "done"
    /\ UNCHANGED <<ctext, csize, coverlap, cstart, cchunks, cstarts, storeVars, threadVars, trackerVars>>

----------------------------------------------------------------------------
(* ingest_document *)

\* chunk_text as a function: the chunks the loop appends from start on
RECURSIVE ChunksFrom(_, _, _, _)
ChunksFrom(text, size, overlap, start) ==
    IF start < Len(text)
    THEN <<PySlice(text, start, start + size)>> \o ChunksFrom(text, size, overlap, start + size - overlap)
    ELSE <<>>

ChunkText(text, size, overlap) ==
    IF IsBlank(text) THEN <<>> ELSE ChunksFrom(text, size, overlap, 0)

\* the texts the uploaded files hold: blank, short, and longer than one chunk
LongDoc == [i \in 1..(DefaultSize + 1) |-> IF i <= DefaultSize THEN "a" ELSE "b"]
Docs == {<<" ">>, <<"a">>, <<"b", "a">>, LongDoc}

IngestCall(t, doc, filename) ==
    /\ pc[t] = "idle"
    /\ calls < MaxCalls
    /\ calls' = calls + 1
    /\ frame' = [frame EXCEPT ![t] = [NoFrame EXCEPT !.op = "ingest", !.call = calls + 1,
                                                     !.doc = doc, !.source = filename]]
    /\ pc' = [pc EXCEPT ![t] = "ig_load"]
    /\ UNCHANGED <<ret, storeVars, chunkVars, trackerVars>>

\* text = load_text(file_bytes, filename); a failure is wrapped and raised
IgLoad(t) ==
    /\ pc[t] = "ig_load"
    /\ \/ /\ frame' = [frame EXCEPT ![t].text = frame[t].doc, ![t].nLoad = @ + 1]
          /\ pc' = [pc EXCEPT ![t] = "ig_chunk"]
          /\ UNCHANGED ret
       \/ /\ frame' = [frame EXCEPT ![t].nLoad = @ + 1, ![t].fault = "extraction"]
          /\ Finish(t, [Raised("ingest", "Failed to load text") EXCEPT
                            !.cause = "Failed to process PDF"])
    /\ UNCHANGED <<calls, storeVars, chunkVars, trackerVars>>

\* chunks = chunk_text(text): on a str it cannot raise
IgChunk(t) ==
    /\ pc[t] = "ig_chunk"
    /\ frame' = [frame EXCEPT ![t].chunks = ChunkText(frame[t].text, DefaultSize, DefaultOverlap),
                              ![t].nChunk = @ + 1]
    /\ pc' = [pc EXCEPT ![t] = "ig_add"]
    /\ UNCHANGED <<ret, calls, storeVars, chunkVars, trackerVars>>

\* add_documents(chunks, source=filename)
IgAdd(t) ==
    /\ pc[t] = "ig_add"
    /\ frame' = [frame EXCEPT ![t].nAdd = @ + 1]
    /\ pc' = [pc EXCEPT ![t] = "ei_check"]
    /\ UNCHANGED <<ret, calls, storeVars, chunkVars, trackerVars>>

----------------------------------------------------------------------------
(* ProgressTracker: two dicts, which keep their keys in insertion order *)

DefaultMaxSessions == 100

Has(d, id) == \E i \in 1..Len(d) : d[i].id = id
Pos(d, id) == CHOOSE i \in 1..Len(d) : d[i].id = id
Keys(d) == [i \in 1..Len(d) |-> d[i].id]

\* d[id] = value: in place for a known key, at the end for a new one
Put(d, id, rec) == IF Has(d, id) THEN [d EXCEPT ![Pos(d, id)] = rec] ELSE Append(d, rec)

\* del d[id]
Del(d, id) == SelectSeq(d, LAMBDA r : r.id # id)

\* get_progress: self.progress_data.get(session_id, [])
GetProgress(d, id) == IF Has(d, id) THEN d[Pos(d, id)].steps ELSE <<>>

NoLast == [op |-> "none", id |-> 0, k |-> 0, step |-> <<>>, data |-> <<>>, active |-> <<>>]

\* the history of one tracker operation
Did(op, id, k, step) ==
    [op |-> op, id |-> id, k |-> k, step |-> step,
     data |-> progress_data, active |-> active_sessions]

Started(d, id) == Put(d, id, [id |-> id, steps |-> <<>>])
Activated(a, id) == Put(a, id, [id |-> id, active |-> TRUE])

\* faulty variant: a known session keeps its steps (setdefault)
StartSessionKeeps(id) ==
    /\ progress_data' = IF Has(progress_data, id) THEN progress_data ELSE Started(progress_data, id)
    /\ active_sessions' = Activated(active_sessions, id)
    /\ last' = Did("start", id, 0, <<>>)
    /\ UNCHANGED <<uuids, storeVars, threadVars, chunkVars>>

StartSession(id) ==
    /\ progress_data' = Started(progress_data, id)
    /\ active_sessions' = Activated(active_sessions, id)
    /\ last' = Did("start", id, 0, <<>>)
    /\ UNCHANGED <<uuids, storeVars, threadVars, chunkVars>>

\* the step dict; the timestamp is left out
StepData(step, status, details) == [step |-> step, status |-> status, details |-> details]

\* progress_data and active_sessions after add_step
WithStep(d, id, sd) ==
    LET d1 == IF Has(d, id) THEN d ELSE Started(d, id)
    IN  [d1 EXCEPT ![Pos(d1, id)].steps = Append(@, sd)]

\* faulty variant: an ended session no longer takes steps
AddStepIfActive(id, step, status, details) ==
    /\ progress_data' = IF Has(active_sessions, id) /\ ~active_sessions[Pos(active_sessions, id)].active
                        THEN progress_data
                        ELSE WithStep(progress_data, id, StepData(step, status, details))
    /\ active_sessions' = IF Has(progress_data, id) THEN active_sessions
                          ELSE Activated(active_sessions, id)
    /\ last' = Did("add_step", id, 0, StepData(step, status, details))
    /\ UNCHANGED <<uuids, storeVars, threadVars, chunkVars>>

AddStep(id, step, status, details) ==
    /\ progress_data' = WithStep(progress_data, id, StepData(step, status, details))
    /\ active_sessions' = IF Has(progress_data, id) THEN active_sessions
                          ELSE Activated(active_sessions, id)
    /\ last' = Did("add_step", id, 0, StepData(step, status, details))
    /\ UNCHANGED <<uuids, storeVars, threadVars, chunkVars>>

\* faulty variant: ending a session drops its log
EndSessionDeletes(id) ==
    /\ active_sessions' = IF Has(active_sessions, id)
                          THEN [active_sessions EXCEPT ![Pos(active_sessions, id)].active = FALSE]
                          ELSE active_sessions
    /\ progress_data' = Del(progress_data, id)
    /\ last' = Did("end", id, 0, <<>>)
    /\ UNCHANGED <<uuids, storeVars, threadVars, chunkVars>>

EndSession(id) ==
    /\ active_sessions' = IF Has(active_sessions, id)
                          THEN [active_sessions EXCEPT ![Pos(active_sessions, id)].active = FALSE]
                          ELSE active_sessions
    /\ last' = Did("end", id, 0, <<>>)
    /\ UNCHANGED <<progress_data, uuids, storeVars, threadVars, chunkVars>>

\* for session_id in sessions[:-max_sessions]: del ...
RECURSIVE DelAll(_, _)
DelAll(d, ids) == IF ids = <<>> THEN d ELSE DelAll(Del(d, Head(ids)), Tail(ids))

CleanupOldSessions(max_sessions) ==
    /\ IF Len(progress_data) > max_sessions
       THEN LET victims == PySlice(Keys(progress_data), 0, 0 - max_sessions)
            IN  /\ progress_data' = DelAll(progress_data, victims)
                /\ active_sessions' = DelAll(active_sessions, victims)
       ELSE UNCHANGED <<progress_data, active_sessions>>
    /\ last' = Did("cleanup", 0, max_sessions, <<>>)
    /\ UNCHANGED <<uuids, storeVars, threadVars, chunkVars>>

\* consecutive add_step calls on one session: the first one starts an
\* unknown session, each appends its step
WithSteps(d, id, sds) ==
    IF sds = <<>> THEN d
    ELSE LET d1 == IF Has(d, id) THEN d ELSE Started(d, id)
         IN  [d1 EXCEPT ![Pos(d1, id)].steps = @ \o sds]

\* session_id = str(uuid.uuid4()): an id no session has yet
FreshId == uuids + 1

\* POST /ingest with a file whose name does not end in .pdf: the handler
\* starts a session, logs two steps and returns; no end_session, no cleanup
IngestRejected ==
    /\ uuids < DefaultMaxSessions + MaxExtra
    /\ uuids' = uuids + 1
    /\ progress_data' = WithSteps(Started(progress_data, FreshId), FreshId,
                            << StepData("[FILE] Received file", "info", ""),
                               StepData("[ERROR] Invalid file type", "error",
                                        "Only PDF files are supported") >>)
    /\ active_sessions' = Activated(active_sessions, FreshId)
    /\ last' = Did("ingest", FreshId, 0, <<>>)
    /\ UNCHANGED <<storeVars, threadVars, chunkVars>>

\* the ways answer_question can go
AnswerOutcomes == {"answered", "no_documents", "search_failed", "generation_failed"}

\* steps logged by answer_question_with_progress and answer_question
\* (counts formatted into the step text are left out of it)
AnswerSteps(outcome) ==
    LET found == << StepData("[SEARCH] Starting question processing...", "info", ""),
                    StepData("[SEARCH] Searching documents...", "info", "") >>
        context == << StepData("[OK] Found relevant documents", "success", ""),
                      StepData("[PROCESS] Building context from documents...", "info", ""),
                      StepData("[OK] Built context", "success", ""),
                      StepData("[AI] Preparing AI prompt...", "info", ""),
                      StepData("[AI] Generating AI response...", "info", "") >>
        failed == StepData("[ERROR] Question processing failed", "error", "e")
    IN  CASE outcome = "search_failed" ->
                found \o << StepData("[ERROR] Document search failed", "error", "e"), failed >>
          [] outcome = "no_documents" ->
                found \o << StepData("[OK] Found relevant documents", "success", ""),
                            StepData("[WARNING] No relevant documents found", "warning", "") >>
          [] outcome = "generation_failed" ->
                found \o context \o
                    << StepData("[ERROR] AI generation failed", "error", "e"), failed >>
          [] OTHER ->
                found \o context \o << StepData("[OK] AI response generated", "success", "") >>

AnswerRaises(outcome) == outcome \in {"search_failed", "generation_failed"}

\* POST /query: start_session, the steps of the answer, the closing step,
\* end_session on both paths; no cleanup
QueryRequest(outcome) ==
    /\ uuids < MaxQueries
    /\ uuids' = uuids + 1
    /\ progress_data' = WithSteps(Started(progress_data, FreshId), FreshId,
                            << StepData("[QUERY] Processing query", "info", "") >>
                            \o AnswerSteps(outcome)
                            \o << IF AnswerRaises(outcome)
                                  THEN StepData("[ERROR] Query failed", "error", "e")
                                  ELSE StepData("[OK] Query completed successfully", "success", "") >>)
    /\ active_sessions' = Put(active_sessions, FreshId, [id |-> FreshId, active |-> FALSE])
    /\ last' = Did("query", FreshId, 0, <<>>)
    /\ UNCHANGED <<storeVars, threadVars, chunkVars>>

\* POST /ingest where reading the upload raises: the handler logs the
\* failure and returns; no end_session
IngestReadFailed ==
    /\ uuids' = uuids + 1
    /\ progress_data' = WithSteps(Started(progress_data, FreshId), FreshId,
                            << StepData("[FILE] Received file", "info", ""),
                               StepData("[OK] File type validated", "success", ""),
                               StepData("[read] Reading file bytes...", "info", ""),
                               StepData("[ERROR] File read failed", "error", "e") >>)
    /\ active_sessions' = Activated(active_sessions, FreshId)
    /\ last' = Did("ingest", FreshId, 0, <<>>)
    /\ UNCHANGED <<storeVars, threadVars, chunkVars>>

Queued == StepData("[QUEUE] Starting background processing...", "info", "")

\* POST /ingest of a readable .pdf: the handler queues the background task
\* and returns
IngestAccepted ==
    /\ uuids' = uuids + 1
    /\ progress_data' = WithSteps(Started(progress_data, FreshId), FreshId,
                            << StepData("[FILE] Received file", "info", ""),
                               StepData("[OK] File type validated", "success", ""),
                               StepData("[read] Reading file bytes...", "info", ""),
                               StepData("[OK] File read", "success", ""),
                               Queued >>)
    /\ active_sessions' = Activated(active_sessions, FreshId)
    /\ last' = Did("ingest", FreshId, 0, <<>>)
    /\ UNCHANGED <<storeVars, threadVars, chunkVars>>

\* the background task of session id is queued and has not run
Pending(id) ==
    /\ Has(progress_data, id)
    /\ GetProgress(progress_data, id) # <<>>
    /\ GetProgress(progress_data, id)[Len(GetProgress(progress_data, id))] = Queued

\* the ways ingest_document can go
IngestOutcomes == {"stored", "extraction_failed", "chunking_failed", "storage_failed"}

\* steps logged by ingest_document (counts formatted into the step text are
\* left out of it)
IngestSteps(outcome) ==
    LET reading == << StepData("[PROCESS] Processing document", "info", ""),
                      StepData("[read] Extracting text from PDF...", "info", "") >>
        chunking == << StepData("[OK] Text extracted", "success", ""),
                       StepData("[CHUNK] Splitting text into chunks...", "info", "") >>
        storing == << StepData("[OK] Created text chunks", "success", ""),
                      StepData("[DATA] Creating embeddings and storing...", "info", "") >>
    IN  CASE outcome = "extraction_failed" ->
                reading \o << StepData("[ERROR] Text extraction failed", "error", "e") >>
          [] outcome = "chunking_failed" ->
                reading \o chunking \o << StepData("[ERROR] Text chunking failed", "error", "e") >>
          [] outcome = "storage_failed" ->
                reading \o chunking \o storing
                    \o << StepData("[ERROR] Vector storage failed", "error", "e") >>
          [] OTHER ->
                reading \o chunking \o storing
                    \o << StepData("[OK] Document stored successfully", "success", "") >>

\* ingest_document_with_progress: the steps of the ingestion, the closing
\* step, end_session on both paths
BackgroundIngest(id, outcome) ==
    /\ Pending(id)
    /\ progress_data' = WithSteps(progress_data, id,
                            << StepData("[PROCESS] Starting document processing...", "info", "") >>
                            \o IngestSteps(outcome)
                            \o << IF outcome = "stored"
                                  THEN StepData("[OK] Document ingestion completed", "success", "")
                                  ELSE StepData("[ERROR] Document ingestion failed", "error", "e") >>)
    /\ active_sessions' = IF Has(active_sessions, id)
                          THEN [active_sessions EXCEPT ![Pos(active_sessions, id)].active = FALSE]
                          ELSE active_sessions
    /\ last' = Did("background", id, 0, <<>>)
    /\ UNCHANGED <<uuids, storeVars, threadVars, chunkVars>>

TrackerIdle ==
    /\ progress_data = <<>>
    /\ active_sessions = <<>>
    /\ uuids = 0
    /\ last = NoLast

----------------------------------------------------------------------------
(* Specifications *)

StoreInit ==
    /\ model = "None"
    /\ index = None
    /\ metadata = None
    /\ init_lock = 0
    /\ vecOrigin = <<>>
    /\ rowOrigin = <<>>
    /\ loads = [model |-> 0, index |-> 0, meta |-> 0]
    /\ frame = [t \in Threads |-> NoFrame]
    /\ ret = [t \in Threads |-> NoRet]
    /\ calls = 0

ChunkIdle ==
    /\ ctext = <<>>
    /\ csize = 1
    /\ coverlap = 0
    /\ cstart = 0
    /\ cchunks = <<>>
    /\ cstarts = <<>>
    /\ cpc = "off"

Step(t) ==
    \/ EnsureCall(t)
    \/ \E chunks \in UNION {[1..n -> Texts] : n \in 0..MaxChunks}, source \in NewSources :
          AddCall(t, chunks, source)
    \/ \E q \in Texts, k \in (1..MaxK) \cup {DefaultK} : SearchCall(t, q, k)
    \/ \E q \in Texts : AnswerCall(t, q)
    \/ EiCheck(t)
    \/ EiLock(t)
    \/ EiModel(t)
    \/ EiIndex(t)
    \/ EiMeta(t)
    \/ AddGuard(t)
    \/ AddEncode(t)
    \/ AddIndex(t)
    \/ AddMeta(t)
    \/ AddWriteIndex(t)
    \/ AddWriteMeta(t)
    \/ SearchGuard(t)
    \/ SearchEncode(t)
    \/ SearchIndex(t)
    \/ SearchMap(t)
    \/ AqDocs(t)
    \/ AqGenerate(t)

Next == \E t \in Threads : Step(t)

\* one thread: calls run one after the other
Init ==
    /\ StoreInit
    /\ indexFile \in IndexFiles
    /\ metaFile \in MetaFiles
    /\ pc = [t \in Threads |-> IF t = 1 THEN "idle" ELSE "off"]
    /\ ChunkIdle
    /\ TrackerIdle

Spec == Init /\ [][Next]_vars

\* all threads: calls interleave
ConcInit ==
    /\ StoreInit
    /\ \E n \in 0..1 :
          /\ indexFile = IF n = 0 THEN Absent ELSE Stored(Encode(SubSeq(PersistedTexts, 1, n)))
          /\ metaFile = IF n = 0 THEN Absent ELSE Stored(SubSeq(PersistedRows, 1, n))
    /\ indexFile \in IndexFiles
    /\ metaFile \in MetaFiles
    /\ pc = [t \in Threads |-> "idle"]
    /\ ChunkIdle
    /\ TrackerIdle

ConcSpec == ConcInit /\ [][Next]_vars

\* the two operations offered to the transport layer, one thread
PipeStep(t) ==
    \/ \E doc \in Docs, filename \in NewSources : IngestCall(t, doc, filename)
    \/ \E q \in Texts : AnswerCall(t, q)
    \/ IgLoad(t)
    \/ IgChunk(t)
    \/ IgAdd(t)
    \/ EiCheck(t)
    \/ EiLock(t)
    \/ EiModel(t)
    \/ EiIndex(t)
    \/ EiMeta(t)
    \/ AddGuard(t)
    \/ AddEncode(t)
    \/ AddIndex(t)
    \/ AddMeta(t)
    \/ AddWriteIndex(t)
    \/ AddWriteMeta(t)
    \/ SearchGuard(t)
    \/ SearchEncode(t)
    \/ SearchIndex(t)
    \/ SearchMap(t)
    \/ AqDocs(t)
    \/ AqGenerate(t)

PipeNext == \E t \in Threads : PipeStep(t)

PipeSpec == Init /\ [][PipeNext]_vars

\* add_documents calls and process restarts, one thread
RestartStep(t) ==
    \/ \E chunks \in UNION {[1..n -> Texts] : n \in 0..MaxChunks}, source \in NewSources :
          AddCall(t, chunks, source)
    \/ Restart(t)
    \/ EiCheck(t)
    \/ EiLock(t)
    \/ EiModel(t)
    \/ EiIndex(t)
    \/ EiMeta(t)
    \/ AddGuard(t)
    \/ AddEncode(t)
    \/ AddIndex(t)
    \/ AddMeta(t)
    \/ AddWriteIndex(t)
    \/ AddWriteMeta(t)

RestartNext == \E t \in Threads : RestartStep(t)

RestartSpec == Init /\ [][RestartNext]_vars

\* the tracker alone: its operations in any order on a few session ids
ProgressInit ==
    /\ StoreInit
    /\ indexFile = Absent
    /\ metaFile = Absent
    /\ pc = [t \in Threads |-> "off"]
    /\ ChunkIdle
    /\ TrackerIdle

ProgressNext ==
    \/ \E id \in 1..MaxSessionIds : StartSession(id)
    \/ \E id \in 1..MaxSessionIds, status \in {"info", "error"} :
          /\ Len(GetProgress(progress_data, id)) < MaxSteps
          /\ AddStep(id, "step", status, "")
    \/ \E id \in 1..MaxSessionIds : EndSession(id)
    \/ \E k \in 0..MaxKeep : CleanupOldSessions(k)

ProgressSpec == ProgressInit /\ [][ProgressNext]_vars

\* the server's request handlers, as far as the tracker sees them; query
\* requests are among the first MaxQueries requests
RequestNext ==
    \/ IngestRejected
    \/ \E outcome \in AnswerOutcomes : QueryRequest(outcome)

RequestSpec == ProgressInit /\ [][RequestNext]_vars

\* every path of the two request handlers and the background task, for a
\* few requests
HandlerNext ==
    \/ uuids < MaxRequests /\ IngestRejected
    \/ uuids < MaxRequests /\ IngestReadFailed
    \/ uuids < MaxRequests /\ IngestAccepted
    \/ uuids < MaxRequests /\ \E outcome \in AnswerOutcomes : QueryRequest(outcome)
    \/ \E id \in 1..MaxRequests, outcome \in IngestOutcomes : BackgroundIngest(id, outcome)

\* a queued background task runs once the response is sent
HandlerLive ==
    /\ ProgressInit
    /\ [][HandlerNext]_vars
    /\ WF_vars(\E id \in 1..MaxRequests, outcome \in IngestOutcomes : BackgroundIngest(id, outcome))

\* chunk_text on every input of ChunkInputs
ChunkInit ==
    /\ \E inp \in ChunkInputs :
          /\ ctext = inp[1]
          /\ csize = inp[2]
          /\ coverlap = inp[3]
    /\ cstart = 0
    /\ cchunks = <<>>
    /\ cstarts = <<>>
    /\ cpc = "call"
    /\ model = "None"
    /\ index = None
    /\ metadata = None
    /\ init_lock = 0
    /\ indexFile = Absent
    /\ metaFile = Absent
    /\ vecOrigin = <<>>
    /\ rowOrigin = <<>>
    /\ loads = [model |-> 0, index |-> 0, meta |-> 0]
    /\ frame = [t \in Threads |-> NoFrame]
    /\ ret = [t \in Threads |-> NoRet]
    /\ calls = 0
    /\ pc = [t \in Threads |-> "off"]
    /\ TrackerIdle

ChunkNext == ChunkEnter \/ ChunkLoop \/ ChunkExit

ChunkSpec == ChunkInit /\ [][ChunkNext]_vars

\* the loop is a running thread: it keeps taking steps
ChunkLive == ChunkInit /\ [][ChunkNext]_vars /\ WF_vars(ChunkNext)

----------------------------------------------------------------------------
(* Properties of add_documents (one thread) *)

Quiet(t, op) == pc[t] = "idle" /\ ret[t].op = op

\* C1: an add_documents call that returns normally on a store of M vectors
\* and M rows leaves M+N vectors and M+N rows; the first M rows are the old
\* ones and row M+i is {text: chunks[i], source}.
C1_AddAppendsInOrder ==
    \A t \in Threads :
        (/\ Quiet(t, "add")
         /\ ret[t].status = "ok"
         /\ Len(Val(frame[t].preIndex)) = Len(Val(frame[t].preMeta)))
        => LET M == Len(Val(frame[t].preMeta))
               N == Len(frame[t].chunks)
           IN  /\ Len(Val(index)) = M + N
               /\ Len(Val(metadata)) = M + N
               /\ SubSeq(Val(metadata), 1, M) = Val(frame[t].preMeta)
               /\ \A i \in 1..N :
                     Val(metadata)[M + i] = [text |-> frame[t].chunks[i],
                                             source |-> frame[t].source]

C1_Witness ==
    \E t \in Threads :
        /\ Quiet(t, "add")
        /\ ret[t].status = "ok"
        /\ Len(frame[t].chunks) = 2
        /\ frame[t].chunks[1] # frame[t].chunks[2]
        /\ Len(Val(frame[t].preMeta)) >= 1
        /\ Len(Val(frame[t].preIndex)) = Len(Val(frame[t].preMeta))

OldCount(origin) == Cardinality({i \in 1..Len(origin) : origin[i][1] = 0})

\* C2: with calls run one after the other on a store loaded with as many
\* vectors as rows, the counts agree whenever no call is in progress, whether
\* the calls returned or raised; a call that raised left index and metadata
\* as it found them.
C2_CountsAgreeWhenQuiet ==
    /\ ((\A t \in Threads : pc[t] \in {"idle", "off"})
          /\ index # None /\ metadata # None
          /\ OldCount(vecOrigin) = OldCount(rowOrigin))
       => Len(Val(index)) = Len(Val(metadata))
    /\ \A t \in Threads :
          (Quiet(t, "add") /\ ret[t].status = "raised")
          => (index = frame[t].preIndex /\ metadata = frame[t].preMeta)

C2_Witness ==
    \E t \in Threads :
        /\ Quiet(t, "add")
        /\ ret[t].status = "raised"
        /\ ret[t].error = "index add failed"
        /\ frame[t].chunks # <<>>
        /\ Len(Val(index)) = Len(Val(metadata))
        /\ \E i \in 1..Len(vecOrigin) : vecOrigin[i][1] > 0

----------------------------------------------------------------------------
(* Properties of search (one thread) *)

\* C3: on a store of V vectors and V rows with 0 < V < k, search(query, k)
\* returns normally, returns at most V rows (exactly V when the index search
\* ran) and skips no ordinal.
C3_FewerVectorsThanK ==
    \A t \in Threads :
        (/\ Quiet(t, "search")
         /\ model = "loaded"
         /\ Len(Val(index)) = Len(Val(metadata))
         /\ 0 < Len(Val(index))
         /\ Len(Val(index)) < frame[t].k)
        => /\ ret[t].status = "ok"
           /\ Len(ret[t].rows) <= Len(Val(index))
           /\ (frame[t].I # <<>> => Len(ret[t].rows) = Len(Val(index)))
           /\ ret[t].skipped = 0

\* C4: when the model failed to load or the index holds no vector, search
\* returns the empty list and does not raise.
C4_EmptyIndexSearch ==
    \A t \in Threads :
        (Quiet(t, "search") /\ (model = "None" \/ Len(Val(index)) = 0))
        => (ret[t].status = "ok" /\ ret[t].rows = <<>>)

----------------------------------------------------------------------------
(* Properties under concurrency *)

\* C5: when concurrent add_documents calls have all returned, the index and
\* the metadata list have the same length and the i-th vector and the i-th
\* row come from the same chunk of the same call.
C5_OrdinalCorrespondence ==
    (\A t \in Threads : Quiet(t, "add") /\ ret[t].status = "ok")
    => (Len(Val(index)) = Len(Val(metadata)) /\ vecOrigin = rowOrigin)

\* C6: each of the three pieces is loaded at most once in the process
\* lifetime, also after a failed model load, and at most one thread is
\* inside the initialization.
C6_InitAtMostOnce ==
    /\ loads.model <= 1
    /\ loads.index <= 1
    /\ loads.meta <= 1
    /\ Cardinality({t \in Threads : pc[t] \in {"ei_model", "ei_index", "ei_meta"}}) <= 1

----------------------------------------------------------------------------
(* Properties of chunk_text *)

\* every position of the text is in a chunk holding the text at that place
Covered ==
    \A p \in 1..Len(ctext) :
        \E j \in 1..Len(cchunks) :
            /\ cstarts[j] < p
            /\ p <= cstarts[j] + Len(cchunks[j])
            /\ cchunks[j][p - cstarts[j]] = ctext[p]

ChunkShape ==
    /\ Covered
    /\ \A j \in 1..Len(cchunks) : Len(cchunks[j]) <= csize
    /\ \A j \in 1..(Len(cchunks) - 1) : cstarts[j + 1] - cstarts[j] = csize - coverlap

\* C7 as stated: for every text, whitespace-only text included, and
\* 0 <= overlap < size, the chunks cover every position, are at most size
\* long and start size - overlap apart.
C7_CoverageAnyText ==
    (cpc = "done" /\ coverlap < csize) => ChunkShape

\* C7 amended: the same for every text that is not whitespace-only
\* (whitespace-only text yields no chunk at all).
C7_CoverageNonBlank ==
    (cpc = "done" /\ coverlap < csize /\ ~IsBlank(ctext)) => ChunkShape

C7_Witness ==
    /\ cpc = "done"
    /\ 0 < coverlap
    /\ coverlap < csize
    /\ ~IsBlank(ctext)
    /\ Len(cchunks) >= 3
    /\ Len(cchunks[Len(cchunks)]) < csize

\* C8: with overlap >= size and a text that is not blank the call ends with
\* an error; it never runs the loop.
C8_FailFast ==
    (~IsBlank(ctext) /\ coverlap >= csize) => cpc \in {"call", "error"}

\* the sliding-window reference: chunk j is T[j*step : j*step + size]
RefChunks(T, size, overlap) ==
    LET step == size - overlap
        n == (Len(T) + step - 1) \div step
    IN  [j \in 1..n |-> SubSeq(T, (j - 1) * step + 1, Min((j - 1) * step + size, Len(T)))]

C9_Result ==
    cpc = "done" =>
        /\ IsBlank(ctext) => cchunks = <<>>
        /\ (~IsBlank(ctext) /\ coverlap < csize) => cchunks = RefChunks(ctext, csize, coverlap)
        /\ (ctext = ScenarioText /\ csize = DefaultSize /\ coverlap = DefaultOverlap)
              => /\ cstarts = <<0, 650, 1300, 1950>>
                 /\ Len(cchunks) = 4
                 /\ Len(cchunks[4]) = 50

\* C9: chunk_text returns [] for blank text; otherwise, for overlap < size,
\* it terminates and returns the ceil(len/step) chunks of the sliding-window
\* reference; 2000 characters with size 800 and overlap 150 give 4 chunks
\* starting at 0, 650, 1300, 1950, the last 50 long.
C9_SlidingWindow ==
    /\ []C9_Result
    /\ (coverlap < csize) ~> (cpc = "done")

C9_Witness ==
    /\ cpc = "done"
    /\ ctext = ScenarioText
    /\ Len(cchunks) = 4

----------------------------------------------------------------------------
(* Properties of answer_question *)

\* search has returned to answer_question
SearchCameBack(t) ==
    \/ pc[t] \in {"aq_docs", "aq_generate"}
    \/ Quiet(t, "answer") /\ ret[t].error # "Failed to search documents"

\* C10: when search returned no rows, answer_question does not invoke the
\* generation client at any point of the call and returns the fixed fallback
\* text with sources = [].
C10_FallbackWithoutGeneration ==
    \A t \in Threads :
        (frame[t].op = "answer" /\ SearchCameBack(t) /\ frame[t].docs = <<>>)
        => /\ frame[t].gen = 0
           /\ pc[t] # "aq_generate"
           /\ pc[t] = "idle" => /\ ret[t].status = "ok"
                                /\ ret[t].answer = FallbackAnswer
                                /\ ret[t].sources = <<>>

C10_Witness ==
    \E t \in Threads :
        /\ Quiet(t, "answer")
        /\ frame[t].docs = <<>>
        /\ ret[t].answer = FallbackAnswer
        /\ Val(metadata) = <<>>


\* C11: when search returned N >= 1 rows and generation succeeded, the
\* sources list has N entries, entry i carries the number i and the source of
\* the i-th row search returned (equal labels are kept), and context block i
\* of the prompt is that same row.
C11_SourcesFollowSearchOrder ==
    \A t \in Threads :
        (Quiet(t, "answer") /\ ret[t].status = "ok" /\ frame[t].docs # <<>>)
        => LET docs == frame[t].docs
               N == Len(docs)
           IN  /\ docs = MapResults(frame[t].I, Val(metadata), NoResults).rows
               /\ Len(ret[t].sources) = N
               /\ Len(frame[t].blocks) = N
               /\ \A i \in 1..N :
                     /\ ret[t].sources[i].id = i
                     /\ ret[t].sources[i].source = docs[i].source
                     /\ frame[t].blocks[i].n = i
                     /\ frame[t].blocks[i].source = docs[i].source
                     /\ frame[t].blocks[i].text = docs[i].text

C11_Witness ==
    \E t \in Threads :
        /\ Quiet(t, "answer")
        /\ ret[t].status = "ok"
        /\ Len(ret[t].sources) >= 2
        /\ ret[t].sources[1].source = ret[t].sources[2].source
        /\ frame[t].docs[1] # frame[t].docs[2]


\* C12: when the in-memory append succeeded and writing the index file or
\* the metadata file failed, the call returns normally, index and metadata
\* keep the N appended entries, and no write is attempted a second time.
C12_PersistFailureTolerated ==
    \A t \in Threads :
        (Quiet(t, "add") /\ frame[t].persist \in {"index_failed", "meta_failed"})
        => /\ ret[t].status = "ok"
           /\ Val(index) = Val(frame[t].preIndex) \o
                 [i \in 1..Len(frame[t].chunks) |-> Emb(frame[t].chunks[i])]
           /\ Val(metadata) = Val(frame[t].preMeta) \o
                 [i \in 1..Len(frame[t].chunks) |->
                     [text |-> frame[t].chunks[i], source |-> frame[t].source]]
           /\ frame[t].wIndex = 1
           /\ frame[t].wMeta = (IF frame[t].persist = "index_failed" THEN 0 ELSE 1)

C12_Witness ==
    \E t \in Threads :
        /\ Quiet(t, "add")
        /\ frame[t].persist = "index_failed"
        /\ frame[t].chunks # <<>>
        /\ indexFile = Corrupt


----------------------------------------------------------------------------
(* Properties of _ensure_initialized (one thread) *)

InsideInit(t) == pc[t] \in {"ei_check", "ei_lock", "ei_model", "ei_index", "ei_meta"}

\* C13: a failed load of the index file or of the metadata file is not
\* raised and empties that piece only, the other piece is what its file
\* holds (the two lengths may differ); after _ensure_initialized index and
\* metadata are never None.
C13_LoadFailureIsLocal ==
    /\ \A t \in Threads :
          (pc[t] # "off" /\ ~InsideInit(t) /\ (pc[t] # "idle" \/ ret[t].op # "none"))
          => (index # None /\ metadata # None)
    /\ \A t \in Threads :
          Quiet(t, "ensure") => ret[t].status = "ok"
    /\ \A t \in Threads :
          (Quiet(t, "ensure") /\ calls = 1)
          => /\ Val(index) = (IF indexFile.exists /\ indexFile.ok THEN indexFile.data ELSE <<>>)
             /\ Val(metadata) = (IF metaFile.exists /\ metaFile.ok THEN metaFile.data ELSE <<>>)

C13_Witness ==
    \E t \in Threads :
        /\ Quiet(t, "ensure")
        /\ calls = 1
        /\ indexFile = Corrupt
        /\ Val(index) = <<>>
        /\ Len(Val(metadata)) = 2


----------------------------------------------------------------------------
(* Properties of the pipeline: ingest_document and answer_question *)

\* C14: a failure of a pipeline stage (extraction, embedding, index append,
\* query embedding, index search, generation) makes ingest_document or
\* answer_question raise an error that names the stage and carries the
\* cause; it never ends in a normal return.
C14_StageFailureRaises ==
    \A t \in Threads :
        (pc[t] = "idle" /\ ret[t].op \in {"ingest", "answer"} /\ frame[t].fault # "")
        => /\ ret[t].status = "raised"
           /\ ret[t].error # ""
           /\ ret[t].cause # ""

\* C20: no stage runs twice: one ingest_document call extracts, chunks and
\* adds at most once each, one answer_question call searches and generates
\* at most once each, one generation is exactly one HTTP request, and a
\* failed request ends the call with an error.
C20_NoRetry ==
    \A t \in Threads :
        /\ frame[t].nLoad <= 1
        /\ frame[t].nChunk <= 1
        /\ frame[t].nAdd <= 1
        /\ frame[t].nSearch <= 1
        /\ frame[t].gen <= 1
        /\ frame[t].http = frame[t].gen
        /\ frame[t].wIndex <= 1
        /\ frame[t].wMeta <= 1
        /\ (frame[t].fault = "generation") =>
              (pc[t] = "idle" /\ ret[t].status = "raised"
                 /\ ret[t].cause \in {"Failed to connect to Ollama", "Ollama API returned 404",
                                      "Ollama API HTTP error", "Invalid JSON response from Ollama"})

C20_Witness ==
    \E t \in Threads :
        /\ Quiet(t, "answer")
        /\ frame[t].fault = "generation"
        /\ frame[t].http = 1
        /\ ret[t].cause = "Invalid JSON response from Ollama"
        /\ \E i \in 1..Len(rowOrigin) : rowOrigin[i][1] = 1


----------------------------------------------------------------------------
(* Properties of the progress tracker *)

IdsOf(d) == {d[i].id : i \in 1..Len(d)}
Flag(a, id) == a[Pos(a, id)].active

\* every session but id is as the last operation found it
OthersUntouched(id) ==
    \A o \in (IdsOf(last.data) \cup IdsOf(progress_data)
              \cup IdsOf(last.active) \cup IdsOf(active_sessions)) \ {id} :
        /\ Has(progress_data, o) = Has(last.data, o)
        /\ GetProgress(progress_data, o) = GetProgress(last.data, o)
        /\ Has(active_sessions, o) = Has(last.active, o)
        /\ Has(active_sessions, o) => Flag(active_sessions, o) = Flag(last.active, o)

\* C15: cleanup_old_sessions(K) on C sessions leaves min(C, K) sessions, the
\* most recently created ones, for every K >= 0; with C <= K nothing goes.
C15_CleanupKeepsNewest ==
    last.op = "cleanup" =>
        LET C == Len(last.data)
            keep == Min(C, last.k)
        IN  /\ Len(progress_data) = keep
            /\ Keys(progress_data) = SubSeq(Keys(last.data), C - keep + 1, C)
            /\ Keys(active_sessions) = Keys(progress_data)
            /\ C <= last.k => (progress_data = last.data /\ active_sessions = last.active)

\* C16: add_step appends one step at the end of the session's log and
\* leaves the earlier steps and all other sessions alone; an unknown session
\* is created empty and active first, a known one keeps its active flag,
\* ended or not.
C16_AddStepAppends ==
    last.op = "add_step" =>
        /\ Has(progress_data, last.id)
        /\ GetProgress(progress_data, last.id) = Append(GetProgress(last.data, last.id), last.step)
        /\ IF Has(last.data, last.id)
           THEN active_sessions = last.active
           ELSE Has(active_sessions, last.id) /\ Flag(active_sessions, last.id)
        /\ OthersUntouched(last.id)

C16_Witness ==
    /\ last.op = "add_step"
    /\ Has(last.active, last.id)
    /\ ~Flag(last.active, last.id)
    /\ Len(GetProgress(last.data, last.id)) = 1
    /\ GetProgress(last.data, last.id)[1] # last.step

\* C17: end_session sets the active flag to false and nothing else: the log
\* stays, get_progress returns the same steps, and an unknown id creates no
\* session.
C17_EndSessionOnlyFlag ==
    last.op = "end" =>
        /\ progress_data = last.data
        /\ GetProgress(progress_data, last.id) = GetProgress(last.data, last.id)
        /\ Keys(active_sessions) = Keys(last.active)
        /\ Has(active_sessions, last.id) => ~Flag(active_sessions, last.id)
        /\ OthersUntouched(last.id)

C17_Witness ==
    /\ last.op = "end"
    /\ Has(last.active, last.id)
    /\ Flag(last.active, last.id)
    /\ Len(GetProgress(progress_data, last.id)) = 2
    /\ Len(progress_data) = 2

\* C18: start_session leaves the session with an empty log and active,
\* whatever was logged under the id before and whether it had been ended;
\* all other sessions are unchanged.
C18_StartSessionResets ==
    last.op = "start" =>
        /\ Has(progress_data, last.id)
        /\ GetProgress(progress_data, last.id) = <<>>
        /\ Has(active_sessions, last.id)
        /\ Flag(active_sessions, last.id)
        /\ OthersUntouched(last.id)

C18_Witness ==
    /\ last.op = "start"
    /\ Has(last.active, last.id)
    /\ ~Flag(last.active, last.id)
    /\ GetProgress(last.data, last.id) # <<>>
    /\ Len(progress_data) = 2


\* C19: the number of sessions the tracker holds stays bounded under any
\* sequence of ingest and query requests: eviction keeps it within the
\* default limit of cleanup_old_sessions.
C19_SessionsBounded == Len(progress_data) <= DefaultMaxSessions


----------------------------------------------------------------------------
(* Properties of a desynchronised store *)

\* the ordinals of I that name a row of meta, in the order of I
InRange(I, meta) == SelectSeq(I, LAMBDA i : 0 <= i /\ i < Len(meta))

\* C21: in a store with 0 < len(metadata) < index.count, a search that
\* reaches the index returns normally, and its rows are exactly the metadata
\* rows at the returned ordinals i with 0 <= i < len(metadata), in the
\* index's ascending-distance order; every other returned ordinal is dropped.
C21_DesyncSearchMapsInRange ==
    \A t \in Threads :
        (/\ Quiet(t, "search")
         /\ frame[t].I # <<>>
         /\ 0 < Len(Val(metadata))
         /\ Len(Val(metadata)) < Len(Val(index)))
        => LET I == frame[t].I
               meta == Val(metadata)
               kept == InRange(I, meta)
           IN  /\ ret[t].status = "ok"
               /\ ret[t].rows = [j \in 1..Len(kept) |-> meta[kept[j] + 1]]
               /\ ret[t].skipped = Len(I) - Len(kept)
               /\ \A a, b \in 1..Len(kept) :
                     a < b => Dist(Val(index)[kept[a] + 1], frame[t].emb[1])
                              <= Dist(Val(index)[kept[b] + 1], frame[t].emb[1])


----------------------------------------------------------------------------
(* Properties of persistence across a restart *)

\* the new process has initialised after the old one died in or after add_documents
Reloaded(t) == Quiet(t, "ensure") /\ frame[t].restarted /\ frame[t].prevOp = "add"

\* the old process had come back from an add_documents that wrote both files
DiedAfterGoodAdd(t) == frame[t].diedAt = "idle" /\ frame[t].prevPersist = "ok"

\* the old process, adding at least one chunk, wrote the index file and not
\* the metadata file: it died between the two writes, or the metadata write
\* failed
DiedBetweenWrites(t) ==
    /\ Len(frame[t].chunks) >= 1
    /\ \/ frame[t].diedAt = "add_write_meta"
       \/ frame[t].diedAt = "idle" /\ frame[t].prevPersist = "meta_failed"

RoundTrip(t) == index = frame[t].memIndex /\ metadata = frame[t].memMeta

UsedAsLoaded ==
    /\ Len(Val(index)) > Len(Val(metadata))
    /\ Val(index) = indexFile.data
    /\ Val(metadata) = metaFile.data

\* C22 as stated: a restart after an add_documents that wrote both files
\* reloads the index and the metadata list the process held; a crash or
\* failure between the index write and the metadata write reloads a pair
\* with index.count > len(metadata), used as loaded.
C22_RoundTripAnyStore ==
    \A t \in Threads :
        Reloaded(t) =>
            /\ DiedAfterGoodAdd(t) => RoundTrip(t)
            /\ DiedBetweenWrites(t) => UsedAsLoaded

\* C22, amended: the second half holds when the add worked on a store whose
\* index and metadata list had the same length.
C22_RoundTripSyncedStore ==
    \A t \in Threads :
        Reloaded(t) =>
            /\ DiedAfterGoodAdd(t) => RoundTrip(t)
            /\ (/\ DiedBetweenWrites(t)
                /\ Len(Val(frame[t].memIndex)) = Len(Val(frame[t].memMeta)))
               => UsedAsLoaded

C22_Witness ==
    \E t \in Threads :
        /\ Reloaded(t)
        /\ frame[t].diedAt = "add_write_meta"
        /\ Len(frame[t].chunks) = 1
        /\ Len(Val(frame[t].memIndex)) = Len(Val(frame[t].memMeta))
        /\ Len(Val(metadata)) = 1
        /\ Len(Val(index)) = 2


----------------------------------------------------------------------------
(* Properties of the request handlers *)

Ended(id) == Has(active_sessions, id) /\ ~Flag(active_sessions, id)

\* C23: every session a request handler starts is eventually marked
\* inactive, on every path of /ingest and of /query.
C23_EverySessionEnds ==
    \A id \in 1..MaxRequests : Has(active_sessions, id) ~> Ended(id)

====
